---- MODULE Spec2Model ----
(***************************************************************************)
(* The approval workflow of ops-guide-ai: ApprovalManager                  *)
(* (src/riskAssessment/approval_manager.py) as a state machine, with the   *)
(* scoring and approval rules of RiskEngine, PolicyValidator's request and *)
(* plan checks and the HTTP handler of src/server_full.py further down.    *)
(*                                                                         *)
(* Time is counted in whole hours (the unit of timeout_hours).  Python's   *)
(* None is the string "None" for text fields, NoTime for datetime fields   *)
(* and NoRecord for a missing ApprovalRequest.                             *)
(***************************************************************************)
EXTENDS Integers, Sequences, FiniteSets, TLC

VARIABLES
    approval_policies,   \* ApprovalManager.approval_policies (its lists are mutable)
    approval_requests,   \* ApprovalManager.approval_requests: request_id -> ApprovalRequest
    key_order,           \* the keys of approval_requests in the dict's insertion order
    now,                 \* the value datetime.utcnow() returns, in hours
    created_approvers,   \* per request_id: the approvers its create returned, until
                         \* checkStatus, approve or reject is next called on it ({} then);
                         \* kept for the calls that run one at a time
    pc,                  \* position of each concurrent caller inside its call
    targ,                \* arguments and locals of each concurrent caller's call
    tret,                \* return value of each concurrent caller's call
    tstart               \* whether the caller's call started on a PENDING, unexpired record

vars == <<approval_policies, approval_requests, key_order, now, created_approvers,
          pc, targ, tret, tstart>>

thrvars == <<pc, targ, tret, tstart>>

(***************************************************************************)
(* Bounds of the model                                                     *)
(***************************************************************************)
MaxTime == 8         \* the clock stops advancing here
MaxPolicyLen == 4    \* longest eligible_approvers list a policy may grow to
MaxScore == 100      \* highest risk score tried, in hundredths (1.00)

RequestIds == {"req-1", "req-2"}
RiskLevels == {"LOW", "MEDIUM", "HIGH", "CRITICAL"}
Environments == {"dev", "staging", "prod"}
\* the environments create_approval_request is called with: it only tests
\* environment == "prod", so "dev" stands for every other one
CreateEnvironments == {"dev", "prod"}
Callers == {"ops_lead", "ops_manager", "cto", "random_user"}
Reasons == {"too risky", "None"}   \* "None" is Python's None
Comments == {"ok"}
Summaries == {"cancel case"}
Requesters == {"alice"}
TickSteps == {4}
ConcTickSteps == {8}  \* the clock steps between the lines of concurrent callers
\* the concurrent callers; each makes one call
Threads == {1, 2}     \* the callers of approve_request / reject_request
Creators == {3, 4}    \* the callers of create_approval_request
Checkers == {5}       \* the caller of check_approval_status
Workers == Threads \cup Creators \cup Checkers
ConcIds == {"req-1"}
ConcCallers == {"cto", "random_user"}
ConcReasons == {"too risky"}
ConcLevels == {"LOW", "CRITICAL"}   \* CRITICAL is the level whose timeout ends within MaxTime
ConcEnvironments == {"dev"}
Hours == 0..23
Weekdays == 0..6
PipelineHours == {3, 12}
PipelineWeekdays == {6}
PolicyEnvironments == Environments \cup {"qa"}
PlanRiskLevels == RiskLevels \cup {"SEVERE"}
Rollbacks == {<<>>, <<"restore order">>}
Minutes == {0, 1, 30, 59}
Scores == 0..MaxScore
\* the hours and weekdays at the edges of the business-hours and weekend tests
PolicyHours == {0, 8, 9, 17, 18, 23}
PolicyWeekdays == {0, 4, 5, 6}
\* user identifiers, spelled character by character: each marker in lower, upper
\* and mixed case and inside a longer identifier, identifiers without a marker,
\* and one with the letters of a marker apart
Users ==
    {<<"O", "p", "s">>,
     <<"e", "n", "g", "i", "n", "e", "e", "r">>,
     <<"g", "u", "e", "s", "t">>,
     <<"A", "D", "M", "I", "N">>,
     <<"s", "y", "s", "A", "d", "m", "i", "n", "7">>,
     <<"b", "o", "b", ".", "E", "N", "G", "I", "N", "E", "E", "R">>,
     <<"G", "U", "E", "S", "T">>,
     <<"o", "p", "_", "s">>}
\* the assess_risk calls one caller makes in a row
MaxCalls == 3
AssessEnvironments == {"dev", "prod"}
AssessHours == {9, 23}
AssessUsers == {<<"O", "p", "s">>, <<"g", "u", "e", "s", "t">>}

(***************************************************************************)
(* ApprovalStatus, ApprovalRequest                                         *)
(***************************************************************************)
PENDING == "PENDING"
APPROVED == "APPROVED"
REJECTED == "REJECTED"
EXPIRED == "EXPIRED"
CANCELLED == "CANCELLED"
ApprovalStatus == {PENDING, APPROVED, REJECTED, EXPIRED, CANCELLED}
Terminal == ApprovalStatus \ {PENDING}

NoTime == -1
NoRecord == [none |-> TRUE]
NoCall == [op |-> "none"]

\* ApprovalRequest.__init__: created_at is read from the clock by the constructor
ApprovalRequest(request_id, operation_summary, risk_level, requester, approvers, expires_at, created_at) ==
    [request_id |-> request_id,
     operation_summary |-> operation_summary,
     risk_level |-> risk_level,
     requester |-> requester,
     approvers |-> approvers,
     status |-> PENDING,
     created_at |-> created_at,
     expires_at |-> expires_at,
     approved_by |-> "None",
     approved_at |-> NoTime,
     rejection_reason |-> "None"]

Range(s) == {s[i] : i \in 1..Len(s)}

\* the values datetime.utcnow() may return when it last returned t: the clock
\* does not wait for a call to end
ClockFrom(t) == {u \in t..MaxTime : \E d \in TickSteps : (u - t) % d = 0}

\* two successive clock reads when the clock last returned t
TwoReads(t) == UNION {{<<t1, t2>> : t2 \in ClockFrom(t1)} : t1 \in ClockFrom(t)}

(***************************************************************************)
(* ApprovalManager.__init__                                                *)
(***************************************************************************)
InitialPolicies ==
    [l \in {"LOW", "MEDIUM", "HIGH", "CRITICAL"} |->
        CASE l = "LOW" ->
                [required |-> FALSE, approvers_needed |-> 0, timeout_hours |-> 0]
          [] l = "MEDIUM" ->
                [required |-> TRUE, approvers_needed |-> 1, timeout_hours |-> 24,
                 eligible_approvers |-> <<"ops_lead", "senior_engineer">>]
          [] l = "HIGH" ->
                [required |-> TRUE, approvers_needed |-> 2, timeout_hours |-> 12,
                 eligible_approvers |-> <<"ops_manager", "engineering_manager">>]
          [] l = "CRITICAL" ->
                [required |-> TRUE, approvers_needed |-> 2, timeout_hours |-> 4,
                 eligible_approvers |-> <<"ops_director", "cto", "vp_engineering">>]]

\* the key self.approval_policies.get(risk_level, self.approval_policies["HIGH"]) reads
PolicyKey(policies, risk_level) ==
    IF risk_level \in DOMAIN policies THEN risk_level ELSE "HIGH"

PolicyOf(policies, risk_level) == policies[PolicyKey(policies, risk_level)]

\* policy.get("eligible_approvers", ["ops_manager"])
BaseApprovers(policy) ==
    IF "eligible_approvers" \in DOMAIN policy
    THEN policy.eligible_approvers
    ELSE <<"ops_manager">>

\* whether _get_eligible_approvers runs base_approvers.extend(["cto", "vp_engineering"])
Extends(risk_level, environment) ==
    environment = "prod" /\ risk_level \in {"HIGH", "CRITICAL"}

\* base_approvers after the environment-specific block of _get_eligible_approvers
ExtendedApprovers(policies, risk_level, environment) ==
    IF Extends(risk_level, environment)
    THEN BaseApprovers(PolicyOf(policies, risk_level)) \o <<"cto", "vp_engineering">>
    ELSE BaseApprovers(PolicyOf(policies, risk_level))

\* _get_eligible_approvers: list(set(base_approvers)), a fresh list without duplicates
GetEligibleApprovers(policies, risk_level, environment) ==
    Range(ExtendedApprovers(policies, risk_level, environment))

\* the policy table after _get_eligible_approvers: extend() works in place on the
\* list the policy holds, so the policy keeps the appended roles
PoliciesAfter(policies, risk_level, environment) ==
    IF Extends(risk_level, environment)
       /\ "eligible_approvers" \in DOMAIN PolicyOf(policies, risk_level)
    THEN [policies EXCEPT ![PolicyKey(policies, risk_level)].eligible_approvers =
              ExtendedApprovers(policies, risk_level, environment)]
    ELSE policies

\* the text _notify_approvers prints
ApproverNotice(request) ==
    [kind |-> "approval_needed", request_id |-> request.request_id,
     approvers |-> request.approvers]

\* the text _notify_approval_decision prints
DecisionNotice(request, decision, comments) ==
    [kind |-> "decision", request_id |-> request.request_id,
     decision |-> decision, by |-> request.approved_by, comments |-> comments]


(***************************************************************************)
(* The methods of ApprovalManager, as functions of the state they read.    *)
(* Each returns the store it leaves, its return value and what it printed. *)
(***************************************************************************)
Outcome(requests, result, notices) ==
    [requests |-> requests, ret |-> result, notified |-> notices]

\* mutant: every risk level is taken to require approval
ApprovalRequired_Always(policies, risk_level) == TRUE

\* create_approval_request: `required` of the policy the risk level selects
ApprovalRequired(policies, risk_level) == PolicyOf(policies, risk_level).required

\* create_approval_request, after the `required` test; t1 is the clock read that
\* computes expires_at, t2 the later read of ApprovalRequest.__init__
NewRequest(policies, request_id, operation_summary, risk_level, requester, environment, t1, t2) ==
    ApprovalRequest(request_id, operation_summary, risk_level, requester,
                    GetEligibleApprovers(policies, risk_level, environment),
                    t1 + PolicyOf(policies, risk_level).timeout_hours, t2)

create_approval_request(policies, requests, request_id, operation_summary, risk_level, requester, environment, t1, t2) ==
    IF ~ApprovalRequired(policies, risk_level)
    THEN [requests |-> requests, ret |-> NoRecord, notified |-> <<>>,
          policies |-> policies]
    ELSE LET request == NewRequest(policies, request_id, operation_summary,
                                   risk_level, requester, environment, t1, t2)
         IN [requests |-> [requests EXCEPT ![request_id] = request],
             ret |-> request,
             notified |-> <<ApproverNotice(request)>>,
             policies |-> PoliciesAfter(policies, risk_level, environment)]

\* mutant: the expiry test forgets the status
CheckExpired_AnyStatus(request, t) == t > request.expires_at

\* mutant: the expiry test takes the expiry instant itself as expired
CheckExpired_Inclusive(request, t) == t >= request.expires_at /\ request.status = PENDING

\* check_approval_status: the expiry test of line 133
CheckExpired(request, t) == t > request.expires_at /\ request.status = PENDING

\* mutant: an unknown request_id gets an EXPIRED record stored and returned
check_approval_status_Remember(requests, request_id, t) ==
    LET request == requests[request_id] IN
    IF request = NoRecord
    THEN LET made == [ApprovalRequest(request_id, "", "HIGH", "", {}, t, t)
                         EXCEPT !.status = EXPIRED]
         IN Outcome([requests EXCEPT ![request_id] = made], made, <<>>)
    ELSE IF CheckExpired(request, t)
    THEN LET after == [requests EXCEPT ![request_id].status = EXPIRED]
         IN Outcome(after, after[request_id], <<>>)
    ELSE Outcome(requests, request, <<>>)

check_approval_status(requests, request_id, t) ==
    LET request == requests[request_id] IN
    IF request = NoRecord
    THEN Outcome(requests, NoRecord, <<>>)
    ELSE IF CheckExpired(request, t)
    THEN LET after == [requests EXCEPT ![request_id].status = EXPIRED]
         IN Outcome(after, after[request_id], <<>>)
    ELSE Outcome(requests, request, <<>>)

\* mutant: the guard only tests that the record exists
NotPending_AbsentOnly(request) == request = NoRecord

\* approve_request: the guard of line 151
NotPending(request) == request = NoRecord \/ request.status # PENDING

\* approve_request: the guard of line 155
ApproverIneligible(request, approver) == approver \notin request.approvers

\* mutant: the expiry instant itself counts as expired
ApproveExpired_Inclusive(request, t) == t >= request.expires_at

\* approve_request: the expiry test of line 159
ApproveExpired(request, t) == t > request.expires_at

\* mutant: a HIGH or CRITICAL record waits for a second approval
Approved_Quorum(request, approver, t) ==
    IF request.risk_level \in {"HIGH", "CRITICAL"} /\ request.approved_by = "None"
    THEN [request EXCEPT !.approved_by = approver, !.approved_at = t]
    ELSE [request EXCEPT !.status = APPROVED, !.approved_by = approver,
                         !.approved_at = t]

\* approve_request: the three assignments of lines 164-166
Approved(request, approver, t) ==
    [request EXCEPT !.status = APPROVED, !.approved_by = approver, !.approved_at = t]

\* mutant: the expiry test runs before the eligibility test
approve_request_ExpiryFirst(requests, request_id, approver, comments, t1, t2) ==
    LET request == requests[request_id] IN
    IF NotPending(request)
    THEN Outcome(requests, FALSE, <<>>)
    ELSE IF ApproveExpired(request, t1)
    THEN Outcome([requests EXCEPT ![request_id].status = EXPIRED], FALSE, <<>>)
    ELSE IF ApproverIneligible(request, approver)
    THEN Outcome(requests, FALSE, <<>>)
    ELSE LET done == Approved(request, approver, t2)
         IN Outcome([requests EXCEPT ![request_id] = done], TRUE,
                    <<DecisionNotice(done, "APPROVED", comments)>>)

\* approve_request; t1 is the clock read of the expiry test, t2 the one that
\* stamps approved_at
approve_request(requests, request_id, approver, comments, t1, t2) ==
    LET request == requests[request_id] IN
    IF NotPending(request)
    THEN Outcome(requests, FALSE, <<>>)
    ELSE IF ApproverIneligible(request, approver)
    THEN Outcome(requests, FALSE, <<>>)
    ELSE IF ApproveExpired(request, t1)
    THEN Outcome([requests EXCEPT ![request_id].status = EXPIRED], FALSE, <<>>)
    ELSE LET done == Approved(request, approver, t2)
         IN Outcome([requests EXCEPT ![request_id] = done], TRUE,
                    <<DecisionNotice(done, "APPROVED", comments)>>)

\* reject_request: the guard of line 185
RejectNotPending(request) == request = NoRecord \/ request.status # PENDING

\* reject_request: the guard of line 189
RejectIneligible(request, approver) == approver \notin request.approvers

\* reject_request: the two assignments of lines 193-194
Rejected(request, reason) ==
    [request EXCEPT !.status = REJECTED, !.rejection_reason = reason]

\* reject_request: it reads no clock
reject_request(requests, request_id, approver, reason) ==
    LET request == requests[request_id] IN
    IF RejectNotPending(request)
    THEN Outcome(requests, FALSE, <<>>)
    ELSE IF RejectIneligible(request, approver)
    THEN Outcome(requests, FALSE, <<>>)
    ELSE LET done == Rejected(request, reason)
         IN Outcome([requests EXCEPT ![request_id] = done], TRUE,
                    <<DecisionNotice(done, "REJECTED", reason)>>)

\* get_pending_approvals: the filter of lines 266-268
IsPendingFor(request, approver, t) ==
    /\ request.status = PENDING
    /\ approver \in request.approvers
    /\ t <= request.expires_at

\* sorted(pending, key=lambda x: x.expires_at): a stable insertion sort
RECURSIVE InsertByExpiry(_, _)
InsertByExpiry(sorted, request) ==
    IF sorted = <<>> THEN <<request>>
    ELSE IF sorted[Len(sorted)].expires_at <= request.expires_at
    THEN Append(sorted, request)
    ELSE Append(InsertByExpiry(SubSeq(sorted, 1, Len(sorted) - 1), request),
                sorted[Len(sorted)])

RECURSIVE SortedByExpiry(_)
SortedByExpiry(pending) ==
    IF pending = <<>> THEN <<>>
    ELSE InsertByExpiry(SortedByExpiry(SubSeq(pending, 1, Len(pending) - 1)),
                        pending[Len(pending)])

\* get_pending_approvals: the loop over approval_requests.values(); the filter
\* reads the clock anew for each record (line 268), times[i] for the i-th
RECURSIVE PendingOf(_, _, _, _)
PendingOf(requests, keys, approver, times) ==
    IF keys = <<>> THEN <<>>
    ELSE LET rest == PendingOf(requests, SubSeq(keys, 1, Len(keys) - 1), approver,
                               times)
             request == requests[keys[Len(keys)]]
         IN IF IsPendingFor(request, approver, times[Len(keys)])
            THEN Append(rest, request) ELSE rest

\* mutant: listing also marks the records it finds past expiry as EXPIRED
get_pending_approvals_Expiring(requests, keys, approver, times) ==
    Outcome([r \in DOMAIN requests |->
                IF requests[r] # NoRecord
                   /\ \E i \in 1..Len(keys) :
                         keys[i] = r /\ CheckExpired(requests[r], times[i])
                THEN [requests[r] EXCEPT !.status = EXPIRED]
                ELSE requests[r]],
            SortedByExpiry(PendingOf(requests, keys, approver, times)), <<>>)

\* get_pending_approvals reads the store and assigns to no record
get_pending_approvals(requests, keys, approver, times) ==
    Outcome(requests, SortedByExpiry(PendingOf(requests, keys, approver, times)), <<>>)

\* the records for which line 268 gets as far as reading the clock: `and` stops
\* at the first test that fails
ClockIsRead(requests, keys, approver) ==
    {i \in 1..Len(keys) :
        /\ requests[keys[i]].status = PENDING
        /\ approver \in requests[keys[i]].approvers}

\* the clock of one get_pending_approvals call when the clock last returned t:
\* times[i] is what the test of the i-th record reads, or what the clock returned
\* last when that test reads no clock
ReadTimes(requests, keys, approver, t) ==
    {times \in [1..Len(keys) -> ClockFrom(t)] :
        \A i \in 1..Len(keys) :
           LET before == IF i = 1 THEN t ELSE times[i - 1] IN
           IF i \in ClockIsRead(requests, keys, approver)
           THEN times[i] \in ClockFrom(before)
           ELSE times[i] = before}

\* what the clock returned last in a call with the reads `times`
LastRead(times, t) == IF Len(times) = 0 THEN t ELSE times[Len(times)]

\* the dict's key order after approval_requests[request_id] = ...
KeysAfterStore(keys, request_id) ==
    IF request_id \in Range(keys) THEN keys ELSE Append(keys, request_id)

(***************************************************************************)
(* Initial state                                                           *)
(***************************************************************************)
Init ==
    /\ approval_policies = InitialPolicies
    /\ approval_requests = [r \in RequestIds |-> NoRecord]
    /\ key_order = <<>>
    /\ now = 0
    /\ created_approvers = [r \in RequestIds |-> {}]
    /\ pc = [t \in Workers |-> "idle"]
    /\ targ = [t \in Workers |-> NoCall]
    /\ tret = [t \in Workers |-> FALSE]
    /\ tstart = [t \in Workers |-> FALSE]

\* the clock advances between calls
Tick ==
    /\ \E d \in TickSteps :
          /\ now + d <= MaxTime
          /\ now' = now + d
    /\ UNCHANGED <<approval_policies, approval_requests, key_order,
                   created_approvers, thrvars>>

(***************************************************************************)
(* One action per call on the ApprovalManager                              *)
(***************************************************************************)
\* the effect of one create_approval_request call on the manager; t1 is the clock
\* read of line 97, t2 that of line 28, and the clock is left at the last read
CreateEffect(request_id, operation_summary, risk_level, requester, environment, t1, t2) ==
    LET out == create_approval_request(approval_policies, approval_requests,
                   request_id, operation_summary, risk_level, requester,
                   environment, t1, t2)
        made == out.ret # NoRecord
    IN /\ made => Len(ExtendedApprovers(approval_policies, risk_level, environment))
                     <= MaxPolicyLen
       /\ approval_requests' = out.requests
       /\ approval_policies' = out.policies
       /\ key_order' = IF made THEN KeysAfterStore(key_order, request_id)
                       ELSE key_order
       /\ created_approvers' =
             IF made THEN [created_approvers EXCEPT ![request_id] = out.ret.approvers]
             ELSE created_approvers
       /\ now' = IF made THEN t2 ELSE now

\* the clock reads of one create_approval_request call: lines 97 and 28, or none
\* when line 91 returns
CreateReads(policies, risk_level, t) ==
    IF ApprovalRequired(policies, risk_level) THEN TwoReads(t) ELSE {<<t, t>>}

CreateCall(request_id, operation_summary, risk_level, requester, environment) ==
    \E reads \in CreateReads(approval_policies, risk_level, now) :
       /\ CreateEffect(request_id, operation_summary, risk_level, requester,
                       environment, reads[1], reads[2])
       /\ UNCHANGED thrvars

Create ==
    \E request_id \in RequestIds, operation_summary \in Summaries,
       risk_level \in RiskLevels, requester \in Requesters,
       environment \in CreateEnvironments :
       CreateCall(request_id, operation_summary, risk_level, requester, environment)

\* the clock read of check_approval_status: line 133, reached when a record is
\* stored under the id
CheckReads(requests, request_id, t) ==
    IF requests[request_id] = NoRecord THEN {t} ELSE ClockFrom(t)

CheckStatusOf(request_id) ==
    \E t \in CheckReads(approval_requests, request_id, now) :
       LET out == check_approval_status(approval_requests, request_id, t)
       IN /\ approval_requests' = out.requests
          /\ created_approvers' = [created_approvers EXCEPT ![request_id] = {}]
          /\ now' = t
          /\ UNCHANGED <<approval_policies, key_order, thrvars>>

CheckStatus == \E request_id \in RequestIds : CheckStatusOf(request_id)

\* the clock reads of one approve_request call: none when a guard returns, one
\* for the expiry test (line 159) when it ends the call, and a second for
\* approved_at (line 166) otherwise
ApproveReads(requests, request_id, approver, t) ==
    IF NotPending(requests[request_id])
       \/ ApproverIneligible(requests[request_id], approver)
    THEN {<<t, t>>}
    ELSE {reads \in TwoReads(t) :
             ApproveExpired(requests[request_id], reads[1]) => reads[2] = reads[1]}

Approve ==
    \E request_id \in RequestIds, approver \in Callers, comments \in Comments :
       \E reads \in ApproveReads(approval_requests, request_id, approver, now) :
          LET out == approve_request(approval_requests, request_id, approver,
                                     comments, reads[1], reads[2])
          IN /\ approval_requests' = out.requests
             /\ created_approvers' = [created_approvers EXCEPT ![request_id] = {}]
             /\ now' = reads[2]
             /\ UNCHANGED <<approval_policies, key_order, thrvars>>

Reject ==
    \E request_id \in RequestIds, approver \in Callers, reason \in Reasons :
       LET out == reject_request(approval_requests, request_id, approver, reason)
       IN /\ approval_requests' = out.requests
          /\ created_approvers' = [created_approvers EXCEPT ![request_id] = {}]
          /\ UNCHANGED <<approval_policies, key_order, now, thrvars>>

ListPending ==
    \E approver \in Callers :
       \E times \in ReadTimes(approval_requests, key_order, approver, now) :
          LET out == get_pending_approvals(approval_requests, key_order, approver,
                                           times)
          IN /\ approval_requests' = out.requests
             /\ now' = LastRead(times, now)
             /\ UNCHANGED <<approval_policies, key_order, created_approvers, thrvars>>

Next == Tick \/ Create \/ CheckStatus \/ Approve \/ Reject \/ ListPending

Spec == Init /\ [][Next]_vars

\* a create whose record, if one is made, expires before the end of the
\* modelled time
CreateWithinHorizon ==
    \E request_id \in RequestIds, operation_summary \in Summaries,
       risk_level \in RiskLevels, requester \in Requesters,
       environment \in CreateEnvironments :
       \E reads \in CreateReads(approval_policies, risk_level, now) :
          /\ ApprovalRequired(approval_policies, risk_level)
                => reads[1] + approval_policies[risk_level].timeout_hours < MaxTime
          /\ CreateEffect(request_id, operation_summary, risk_level, requester,
                          environment, reads[1], reads[2])
          /\ UNCHANGED thrvars

NextLive == Tick \/ CreateWithinHorizon \/ CheckStatus \/ Approve \/ Reject \/ ListPending

\* the manager with time that keeps advancing and check_approval_status called
\* again and again on every request id
SpecLive ==
    /\ Init
    /\ [][NextLive]_vars
    /\ WF_vars(Tick)
    /\ \A request_id \in RequestIds : WF_vars(CheckStatusOf(request_id))

(***************************************************************************)
(* Concurrent callers.  ApprovalManager takes no lock, so the callers of   *)
(* approve_request, reject_request, create_approval_request and            *)
(* check_approval_status interleave line by line.  A caller's position is  *)
(* the source line it executes next; "done" is a caller that has returned. *)
(*                                                                         *)
(* Lines 127, 149 and 183 fetch the ApprovalRequest object once; the rest  *)
(* of the call works on that object.  create_approval_request stores a new *)
(* object under the id (line 110), so a caller that fetched before it goes *)
(* on with an object the store no longer holds.                            *)
(***************************************************************************)
\* targ[t].obj of a caller whose object is the one stored under its request_id;
\* targ[t].replaced of a caller of approve_request or reject_request records that
\* a create stored a new object under that request_id after the call began
Stored == [stored |-> TRUE]

\* targ[t].obj of a caller that has not run its fetch yet
Unbound == [unbound |-> TRUE]

\* the ApprovalRequest object caller t works on (NoRecord is Python's None)
Rec(t) ==
    IF targ[t].obj = Stored THEN approval_requests[targ[t].request_id]
    ELSE targ[t].obj

\* self.approval_requests.get(request_id) (lines 127, 149, 183)
Fetched(request_id) ==
    IF approval_requests[request_id] = NoRecord THEN NoRecord ELSE Stored

\* the store after an assignment to a field of caller t's object
StoreAfterSet(t, request) ==
    IF targ[t].obj = Stored
    THEN [approval_requests EXCEPT ![targ[t].request_id] = request]
    ELSE approval_requests

\* the callers' objects after an assignment to a field of caller t's object:
\* every caller that holds the same replaced object (targ[t].peers) sees it
HeldAfterSet(t, request) ==
    IF targ[t].obj = Stored THEN targ
    ELSE [u \in DOMAIN targ |->
            IF u \in targ[t].peers THEN [targ[u] EXCEPT !.obj = request]
            ELSE targ[u]]

\* an assignment to a field of caller t's object
SetRec(t, request) ==
    /\ approval_requests' = StoreAfterSet(t, request)
    /\ targ' = HeldAfterSet(t, request)

\* the callers, returned ones included, whose object is the one stored under
\* request_id
HoldersOf(request_id) ==
    {t \in Threads \cup Checkers :
        /\ targ[t] # NoCall
        /\ targ[t].request_id = request_id
        /\ targ[t].obj = Stored}

Goto(t, line) == pc' = [pc EXCEPT ![t] = line]

Return(t, value) ==
    /\ pc' = [pc EXCEPT ![t] = "done"]
    /\ tret' = [tret EXCEPT ![t] = value]

(***************************************************************************)
(* create_approval_request line by line.  It reads the clock twice: line   *)
(* 97 computes expires_at, and the ApprovalRequest constructor called at   *)
(* line 99 reads it again for created_at (line 28); line 110 stores the    *)
(* object.  The clock may advance, and other callers may run, between any  *)
(* two lines.                                                              *)
(***************************************************************************)
\* lines 88-91: the call is made; policy lookup; return None when the policy
\* requires no approval
CreateL88(t, request_ids, risk_levels, environments) ==
    /\ pc[t] = "idle"
    /\ \E request_id \in request_ids, operation_summary \in Summaries,
          risk_level \in risk_levels, requester \in Requesters,
          environment \in environments :
          /\ targ' = [targ EXCEPT ![t] =
                [op |-> "create", request_id |-> request_id,
                 operation_summary |-> operation_summary,
                 risk_level |-> risk_level, requester |-> requester,
                 environment |-> environment]]
          /\ Goto(t, IF ApprovalRequired(approval_policies, risk_level)
                     THEN "l94" ELSE "done")
    /\ UNCHANGED <<approval_policies, approval_requests, key_order, now,
                   created_approvers, tret, tstart>>

\* line 94: _get_eligible_approvers (lines 211-220), whose line 218 extends the
\* policy's own list
CreateL94(t) ==
    /\ pc[t] = "l94"
    /\ approval_policies' = PoliciesAfter(approval_policies, targ[t].risk_level,
                                          targ[t].environment)
    /\ targ' = [targ EXCEPT ![t] =
          targ[t] @@ [eligible_approvers |->
                         GetEligibleApprovers(approval_policies, targ[t].risk_level,
                                              targ[t].environment)]]
    /\ Goto(t, "l97")
    /\ UNCHANGED <<approval_requests, key_order, now, created_approvers,
                   tret, tstart>>

\* line 97: expires_at from the clock
CreateL97(t) ==
    /\ pc[t] = "l97"
    /\ targ' = [targ EXCEPT ![t] =
          targ[t] @@ [expires_at |->
                         now + PolicyOf(approval_policies,
                                        targ[t].risk_level).timeout_hours]]
    /\ Goto(t, "l99")
    /\ UNCHANGED <<approval_policies, approval_requests, key_order, now,
                   created_approvers, tret, tstart>>

\* lines 99-107: construct the ApprovalRequest, whose created_at is a second
\* clock read (line 28)
CreateL99(t) ==
    /\ pc[t] = "l99"
    /\ targ' = [targ EXCEPT ![t] =
          [op |-> "create", request_id |-> targ[t].request_id,
           approval_request |->
              ApprovalRequest(targ[t].request_id, targ[t].operation_summary,
                              targ[t].risk_level, targ[t].requester,
                              targ[t].eligible_approvers, targ[t].expires_at, now)]]
    /\ Goto(t, "l110")
    /\ UNCHANGED <<approval_policies, approval_requests, key_order, now,
                   created_approvers, tret, tstart>>

\* lines 110-115: store the object under the id, whatever is stored there and
\* whoever holds it; notify; return
CreateL110(t) ==
    /\ pc[t] = "l110"
    /\ LET request_id == targ[t].request_id IN
       /\ approval_requests' =
             [approval_requests EXCEPT ![request_id] = targ[t].approval_request]
       /\ key_order' = KeysAfterStore(key_order, request_id)
       /\ targ' = [u \in DOMAIN targ |->
             IF u = t THEN [op |-> "create", request_id |-> request_id]
             ELSE IF targ[u] = NoCall \/ u \in Creators
                     \/ targ[u].request_id # request_id
             THEN targ[u]
             ELSE LET held == IF u \in HoldersOf(request_id)
                              THEN [targ[u] EXCEPT
                                       !.obj = approval_requests[request_id],
                                       !.peers = HoldersOf(request_id)]
                              ELSE targ[u]
                  IN IF u \in Threads THEN [held EXCEPT !.replaced = TRUE]
                     ELSE held]
    /\ Goto(t, "done")
    /\ UNCHANGED <<approval_policies, now, created_approvers, tret, tstart>>

(***************************************************************************)
(* check_approval_status line by line                                      *)
(***************************************************************************)
\* line 127: the call is made; fetch the record
CheckL127(t) ==
    /\ pc[t] = "idle"
    /\ \E request_id \in ConcIds :
          targ' = [targ EXCEPT ![t] =
                      [op |-> "check", request_id |-> request_id,
                       obj |-> Fetched(request_id), peers |-> {}]]
    /\ Goto(t, "l129")
    /\ UNCHANGED <<approval_policies, approval_requests, key_order, now,
                   created_approvers, tret, tstart>>

\* lines 129-130: return None when there is no record
CheckL129(t) ==
    /\ pc[t] = "l129"
    /\ Goto(t, IF Rec(t) = NoRecord THEN "done" ELSE "l133")
    /\ UNCHANGED <<approval_policies, approval_requests, key_order, now,
                   created_approvers, targ, tret, tstart>>

\* line 133: the expiry test reads the clock and the status
CheckL133(t) ==
    /\ pc[t] = "l133"
    /\ Goto(t, IF CheckExpired(Rec(t), now) THEN "l134" ELSE "done")
    /\ UNCHANGED <<approval_policies, approval_requests, key_order, now,
                   created_approvers, targ, tret, tstart>>

\* lines 134-136: the object's status becomes EXPIRED; return
CheckL134(t) ==
    /\ pc[t] = "l134"
    /\ SetRec(t, [Rec(t) EXCEPT !.status = EXPIRED])
    /\ Goto(t, "done")
    /\ UNCHANGED <<approval_policies, key_order, now, created_approvers,
                   tret, tstart>>

(***************************************************************************)
(* approve_request and reject_request line by line                         *)
(***************************************************************************)
\* a caller calls approve_request or reject_request
Start(t) ==
    /\ pc[t] = "idle"
    /\ \E op \in {"approve", "reject"}, request_id \in ConcIds,
          approver \in ConcCallers, reason \in ConcReasons :
          /\ targ' = [targ EXCEPT ![t] = [op |-> op, request_id |-> request_id,
                                          approver |-> approver, reason |-> reason,
                                          obj |-> Unbound, peers |-> {},
                                          replaced |-> FALSE]]
          /\ Goto(t, IF op = "approve" THEN "l149" ELSE "l183")
          /\ tstart' = [tstart EXCEPT ![t] =
                LET request == approval_requests[request_id] IN
                /\ request # NoRecord
                /\ request.status = PENDING
                /\ approver \in request.approvers
                /\ now <= request.expires_at]
    /\ UNCHANGED <<approval_policies, approval_requests, key_order, now,
                   created_approvers, tret>>

\* lines 149 and 183: fetch the record
L149(t) ==
    /\ pc[t] \in {"l149", "l183"}
    /\ targ' = [targ EXCEPT ![t].obj = Fetched(targ[t].request_id)]
    /\ Goto(t, IF pc[t] = "l149" THEN "l151" ELSE "l185")
    /\ UNCHANGED <<approval_policies, approval_requests, key_order, now,
                   created_approvers, tret, tstart>>

\* lines 151-152 and 185-186: return False unless there is a record and it is
\* PENDING
L151(t) ==
    /\ pc[t] \in {"l151", "l185"}
    /\ IF (IF pc[t] = "l151" THEN NotPending(Rec(t)) ELSE RejectNotPending(Rec(t)))
       THEN Return(t, FALSE)
       ELSE Goto(t, IF pc[t] = "l151" THEN "l155" ELSE "l189") /\ UNCHANGED tret
    /\ UNCHANGED <<approval_policies, approval_requests, key_order, now,
                   created_approvers, targ, tstart>>

\* lines 155-156 and 189-190: the eligibility test
L155(t) ==
    /\ pc[t] \in {"l155", "l189"}
    /\ IF (IF pc[t] = "l155" THEN ApproverIneligible(Rec(t), targ[t].approver)
           ELSE RejectIneligible(Rec(t), targ[t].approver))
       THEN Return(t, FALSE)
       ELSE Goto(t, IF pc[t] = "l155" THEN "l159" ELSE "l193") /\ UNCHANGED tret
    /\ UNCHANGED <<approval_policies, approval_requests, key_order, now,
                   created_approvers, targ, tstart>>

\* line 159: the expiry test of approve_request reads the clock
L159(t) ==
    /\ pc[t] = "l159"
    /\ Goto(t, IF ApproveExpired(Rec(t), now) THEN "l160" ELSE "l164")
    /\ UNCHANGED <<approval_policies, approval_requests, key_order, now,
                   created_approvers, targ, tret, tstart>>

\* lines 160-161: the object's status becomes EXPIRED; return False
L160(t) ==
    /\ pc[t] = "l160"
    /\ SetRec(t, [Rec(t) EXCEPT !.status = EXPIRED])
    /\ Return(t, FALSE)
    /\ UNCHANGED <<approval_policies, key_order, now, created_approvers, tstart>>

\* line 164
L164(t) ==
    /\ pc[t] = "l164"
    /\ SetRec(t, [Rec(t) EXCEPT !.status = APPROVED])
    /\ Goto(t, "l165")
    /\ UNCHANGED <<approval_policies, key_order, now, created_approvers,
                   tret, tstart>>

\* line 165
L165(t) ==
    /\ pc[t] = "l165"
    /\ SetRec(t, [Rec(t) EXCEPT !.approved_by = targ[t].approver])
    /\ Goto(t, "l166")
    /\ UNCHANGED <<approval_policies, key_order, now, created_approvers,
                   tret, tstart>>

\* lines 166-171: the second clock read stamps approved_at; return True
L166(t) ==
    /\ pc[t] = "l166"
    /\ SetRec(t, [Rec(t) EXCEPT !.approved_at = now])
    /\ Return(t, TRUE)
    /\ UNCHANGED <<approval_policies, key_order, now, created_approvers, tstart>>

\* line 193
L193(t) ==
    /\ pc[t] = "l193"
    /\ SetRec(t, [Rec(t) EXCEPT !.status = REJECTED])
    /\ Goto(t, "l194")
    /\ UNCHANGED <<approval_policies, key_order, now, created_approvers,
                   tret, tstart>>

\* lines 194-199: store the reason; return True
L194(t) ==
    /\ pc[t] = "l194"
    /\ SetRec(t, [Rec(t) EXCEPT !.rejection_reason = targ[t].reason])
    /\ Return(t, TRUE)
    /\ UNCHANGED <<approval_policies, key_order, now, created_approvers, tstart>>

ThreadStep(t) ==
    \/ Start(t)
    \/ L149(t)
    \/ L151(t)
    \/ L155(t)
    \/ L159(t)
    \/ L160(t)
    \/ L164(t)
    \/ L165(t)
    \/ L166(t)
    \/ L193(t)
    \/ L194(t)

\* create_approval_request by a concurrent caller
ConcCreate ==
    \E t \in Creators :
       \/ CreateL88(t, ConcIds, ConcLevels, ConcEnvironments)
       \/ CreateL94(t)
       \/ CreateL97(t)
       \/ CreateL99(t)
       \/ CreateL110(t)

\* check_approval_status by a concurrent caller
ConcCheck ==
    \E t \in Checkers : CheckL127(t) \/ CheckL129(t) \/ CheckL133(t) \/ CheckL134(t)

\* the clock advances between two lines of the callers
ConcTick ==
    /\ \E d \in ConcTickSteps :
          /\ now + d <= MaxTime
          /\ now' = now + d
    /\ UNCHANGED <<approval_policies, approval_requests, key_order,
                   created_approvers, thrvars>>

NextConc == ConcTick \/ ConcCreate \/ ConcCheck \/ (\E t \in Threads : ThreadStep(t))

SpecConc == Init /\ [][NextConc]_vars

\* create_approval_request called with every request id, risk level and
\* environment
CreateSteps ==
    \E t \in Creators :
       \/ CreateL88(t, RequestIds, RiskLevels, Environments)
       \/ CreateL94(t)
       \/ CreateL97(t)
       \/ CreateL99(t)
       \/ CreateL110(t)

NextCreate == Tick \/ CreateSteps

SpecCreate == Init /\ [][NextCreate]_vars

(***************************************************************************)
(* RiskEngine (src/riskAssessment/risk_engine.py).  Scores are counted in  *)
(* hundredths.  A call either returns a value or raises.                   *)
(***************************************************************************)
Returns(value) == [value |-> value]
Raises(error) == [raises |-> error]

\* the cased letters of an ASCII identifier
UpperCase ==
    <<"A", "B", "C", "D", "E", "F", "G", "H", "I", "J", "K", "L", "M",
      "N", "O", "P", "Q", "R", "S", "T", "U", "V", "W", "X", "Y", "Z">>
LowerCase ==
    <<"a", "b", "c", "d", "e", "f", "g", "h", "i", "j", "k", "l", "m",
      "n", "o", "p", "q", "r", "s", "t", "u", "v", "w", "x", "y", "z">>

\* str.lower() on one character: an upper-case letter becomes its lower-case
\* letter, every other character stays
Lower(c) ==
    IF \E i \in 1..Len(UpperCase) : UpperCase[i] = c
    THEN LowerCase[CHOOSE i \in 1..Len(UpperCase) : UpperCase[i] = c]
    ELSE c

\* str.lower()
LowerAll(text) == [i \in 1..Len(text) |-> Lower(text[i])]

\* sub in text
Contains(text, sub) ==
    \E i \in 1..(Len(text) - Len(sub) + 1) : SubSeq(text, i, i + Len(sub) - 1) = sub

\* the members of the TaskId enumeration (src/models/core_models.py)
TaskId == {"CANCEL_ORDER", "CHANGE_ORDER_STATUS"}

\* RiskEngine.risk_thresholds, in hundredths
ThresholdLow == 30
ThresholdMedium == 60
ThresholdHigh == 80

\* mutant: the thresholds are exclusive upper bounds
score_to_risk_level_Exclusive(score) ==
    IF score < ThresholdLow THEN "LOW"
    ELSE IF score < ThresholdMedium THEN "MEDIUM"
    ELSE IF score < ThresholdHigh THEN "HIGH"
    ELSE "CRITICAL"

\* RiskEngine._score_to_risk_level
score_to_risk_level(score) ==
    IF score <= ThresholdLow THEN "LOW"
    ELSE IF score <= ThresholdMedium THEN "MEDIUM"
    ELSE IF score <= ThresholdHigh THEN "HIGH"
    ELSE "CRITICAL"

\* the attribute lookup TaskId.<name>: an enumeration raises AttributeError for
\* a name that is not one of its members
TaskIdAttr(name) ==
    IF name \in TaskId THEN Returns(name) ELSE Raises("AttributeError")

\* mutant: line 214 names the member TaskId.CANCEL_ORDER, which exists
requires_approval_CancelOrder(risk_level, environment, task_id) ==
    IF environment = "prod" /\ risk_level \in {"MEDIUM", "HIGH", "CRITICAL"}
    THEN Returns(TRUE)
    ELSE IF risk_level \in {"HIGH", "CRITICAL"}
    THEN Returns(TRUE)
    ELSE Returns(task_id = "CANCEL_ORDER" /\ environment \in {"staging", "prod"})

\* RiskEngine._requires_approval; line 214 evaluates TaskId.CANCEL_CASE whenever
\* the two tests before it did not return
requires_approval(risk_level, environment, task_id) ==
    IF environment = "prod" /\ risk_level \in {"MEDIUM", "HIGH", "CRITICAL"}
    THEN Returns(TRUE)
    ELSE IF risk_level \in {"HIGH", "CRITICAL"}
    THEN Returns(TRUE)
    ELSE LET cancel_case == TaskIdAttr("CANCEL_CASE") IN
         IF "raises" \in DOMAIN cancel_case
         THEN cancel_case
         ELSE IF task_id = cancel_case.value /\ environment \in {"staging", "prod"}
         THEN Returns(TRUE)
         ELSE Returns(FALSE)

\* RiskEngine._calculate_time_risk: only the hour of datetime.now() is read
calculate_time_risk(hour) ==
    IF 9 <= hour /\ hour <= 17 THEN 20
    ELSE IF (6 <= hour /\ hour <= 9) \/ (17 <= hour /\ hour <= 22) THEN 50
    ELSE 80

\* RiskEngine._calculate_user_risk
calculate_user_risk(user_id) ==
    IF Contains(LowerAll(user_id), <<"a", "d", "m", "i", "n">>)
       \/ Contains(LowerAll(user_id), <<"o", "p", "s">>)
    THEN 20
    ELSE IF Contains(LowerAll(user_id), <<"e", "n", "g", "i", "n", "e", "e", "r">>)
    THEN 40
    ELSE 70

\* RiskEngine._build_constraints; line 248 evaluates TaskId.CANCEL_CASE on every
\* call
build_constraints(risk_level, environment, task_id) ==
    LET base == [api_only |-> TRUE, max_retries |-> 3, timeout_minutes |-> 30,
                 rollback_required |-> risk_level \in {"HIGH", "CRITICAL"},
                 monitoring_required |-> risk_level # "LOW",
                 notification_required |-> risk_level \in {"HIGH", "CRITICAL"}]
        inenv == IF environment = "prod"
                 THEN [max_retries |-> 1, timeout_minutes |-> 15,
                       backup_required |-> TRUE, approval_timeout_hours |-> 24]
                      @@ base
                 ELSE base
        cancel_case == TaskIdAttr("CANCEL_CASE")
    IN IF "raises" \in DOMAIN cancel_case
       THEN cancel_case
       ELSE IF task_id = cancel_case.value
       THEN Returns([confirmation_required |-> TRUE,
                     audit_trail_required |-> TRUE] @@ inenv)
       ELSE Returns(inenv)

\* RiskEngine.environment_risk, in hundredths
EnvironmentRisk == [dev |-> 10, staging |-> 30, prod |-> 100]

\* the keys and values of the task_risk dict literal of RiskEngine.__init__
TaskRiskItems ==
    <<[key |-> "CANCEL_CASE", risk |-> 70],
      [key |-> "CHANGE_CASE_STATUS", risk |-> 40],
      [key |-> "RECONCILE_CASE_DATA", risk |-> 80]>>

\* RiskEngine.__init__: building task_risk looks up each key on TaskId
RiskEngineInit ==
    IF \E i \in 1..Len(TaskRiskItems) :
          "raises" \in DOMAIN TaskIdAttr(TaskRiskItems[i].key)
    THEN Raises("AttributeError")
    ELSE Returns([environment_risk |-> EnvironmentRisk,
                  task_risk |-> [k \in {TaskRiskItems[i].key :
                                           i \in 1..Len(TaskRiskItems)} |->
                                    (CHOOSE item \in Range(TaskRiskItems) :
                                        item.key = k).risk]])

\* dict.get(key, default)
Get(table, key, default) == IF key \in DOMAIN table THEN table[key] ELSE default

\* RiskEngine.assess_risk on a constructed engine.  Factor scores are in
\* hundredths and weights in tenths; every product is a multiple of the total
\* weight 50, so the quotient is a whole number of hundredths (the float
\* quotient of the source is that number to within one unit in the last place)
assess_risk(engine, environment, task_id, hour, user_id) ==
    LET risk_factors ==
           <<[name |-> "Environment Risk", weight |-> 20,
              score |-> Get(engine.environment_risk, environment, 50)],
             [name |-> "Task Complexity", weight |-> 15,
              score |-> Get(engine.task_risk, task_id, 50)],
             [name |-> "Timing Risk", weight |-> 5,
              score |-> calculate_time_risk(hour)],
             [name |-> "User Experience", weight |-> 10,
              score |-> calculate_user_risk(user_id)]>>
        total_weighted_score ==
           risk_factors[1].score * risk_factors[1].weight
           + risk_factors[2].score * risk_factors[2].weight
           + risk_factors[3].score * risk_factors[3].weight
           + risk_factors[4].score * risk_factors[4].weight
        total_weight ==
           risk_factors[1].weight + risk_factors[2].weight
           + risk_factors[3].weight + risk_factors[4].weight
        overall_score == total_weighted_score \div total_weight
        risk_level == score_to_risk_level(overall_score)
        required == requires_approval(risk_level, environment, task_id)
        constraints == build_constraints(risk_level, environment, task_id)
    IN IF "raises" \in DOMAIN required THEN required
       ELSE IF "raises" \in DOMAIN constraints THEN constraints
       ELSE Returns([risk_level |-> risk_level, score |-> overall_score,
                     factors |-> risk_factors,
                     requires_approval |-> required.value,
                     constraints |-> constraints.value])

\* RiskEngine().assess_risk(request, classification)
new_engine_assess_risk(environment, task_id, hour, user_id) ==
    LET engine == RiskEngineInit IN
    IF "raises" \in DOMAIN engine THEN engine
    ELSE assess_risk(engine.value, environment, task_id, hour, user_id)


(***************************************************************************)
(* PolicyValidator (src/riskAssessment/policy_validator.py)                *)
(***************************************************************************)
\* environment_policies[environment]["max_risk_level"] (lines 55-78)
MaxRiskLevel == [prod |-> "MEDIUM", staging |-> "HIGH", dev |-> "HIGH"]

\* mutant: the markers are looked for in the identifier as written
has_production_access_AsWritten(user_id) ==
    \E role \in {<<"o", "p", "s">>, <<"a", "d", "m", "i", "n">>,
                 <<"e", "n", "g", "i", "n", "e", "e", "r">>} :
       Contains(user_id, role)

\* _has_production_access: any(role in user_id.lower() for role in [...])
has_production_access(user_id) ==
    \E role \in {<<"o", "p", "s">>, <<"a", "d", "m", "i", "n">>,
                 <<"e", "n", "g", "i", "n", "e", "e", "r">>} :
       Contains(LowerAll(user_id), role)

\* classification.task_id and "CANCEL" in classification.task_id.value
NamesCancel(task_id) == task_id \in {"CANCEL_ORDER"}

PolicyViolation(policy_name, violation_type, severity) ==
    [policy_name |-> policy_name, violation_type |-> violation_type,
     severity |-> severity]

\* the violations validate_request collects (lines 105-117), in order
Violations(user_id, environment, task_id, justified) ==
    (IF environment = "prod" /\ ~has_production_access(user_id)
     THEN <<PolicyViolation("production_access", "AUTHORIZATION", "ERROR")>>
     ELSE <<>>)
    \o
    (IF NamesCancel(task_id) /\ environment = "prod" /\ ~justified
     THEN <<PolicyViolation("business_justification", "MISSING_CONTEXT", "WARNING")>>
     ELSE <<>>)

\* _validate_time_policies on datetime.now() = (weekday, hour)
validate_time_policies(environment, hour, weekday) ==
    (IF environment = "prod" /\ ~(9 <= hour /\ hour <= 17)
     THEN <<"Production operation requested outside business hours">>
     ELSE <<>>)
    \o
    (IF weekday >= 5 THEN <<"Operation requested during weekend">> ELSE <<>>)

\* mutant: a violation of any severity blocks
Blocking_Any(violations) == {i \in 1..Len(violations) : TRUE}

\* [v for v in violations if v.severity in ["ERROR", "CRITICAL"]]
Blocking(violations) ==
    {i \in 1..Len(violations) : violations[i].severity \in {"ERROR", "CRITICAL"}}

\* validate_request: allowed when no violation is of severity ERROR or CRITICAL
validate_request(user_id, environment, task_id, justified, hour, weekday) ==
    LET violations == Violations(user_id, environment, task_id, justified) IN
    [allowed |-> Blocking(violations) = {},
     violations |-> violations,
     warnings |-> validate_time_policies(environment, hour, weekday)]

\* mutant: a plan at the limit counts as over it
risk_exceeds_limit_AtLimit(plan_risk, max_risk) ==
    LET risk_levels == [LOW |-> 1, MEDIUM |-> 2, HIGH |-> 3, CRITICAL |-> 4] IN
    Get(risk_levels, plan_risk, 4) >= Get(risk_levels, max_risk, 3)

\* _risk_exceeds_limit
risk_exceeds_limit(plan_risk, max_risk) ==
    LET risk_levels == [LOW |-> 1, MEDIUM |-> 2, HIGH |-> 3, CRITICAL |-> 4] IN
    Get(risk_levels, plan_risk, 4) > Get(risk_levels, max_risk, 3)

\* validate_plan; plan.rollback is a list of steps, _validate_api_usage returns
\* no violation
validate_plan(rollback, risk_level, environment) ==
    LET max_risk == Get(MaxRiskLevel, environment, "HIGH")
        violations ==
           (IF environment = "prod" /\ rollback = <<>>
            THEN <<PolicyViolation("rollback_required", "MISSING_PROCEDURE", "ERROR")>>
            ELSE <<>>)
           \o
           (IF risk_exceeds_limit(risk_level, max_risk)
            THEN <<PolicyViolation("max_risk_level", "RISK_EXCEEDED", "ERROR")>>
            ELSE <<>>)
    IN [allowed |-> Blocking(violations) = {},
        violations |-> violations,
        warnings |-> <<>>]

(***************************************************************************)
(* Calls on the RiskEngine and the PolicyValidator, one per behaviour      *)
(***************************************************************************)
\* the calls on the RiskEngine that caller 1 is about to make
RiskCalls ==
    {[op |-> "score_to_risk_level", score |-> score] : score \in Scores}
    \cup {[op |-> "requires_approval", risk_level |-> risk_level,
           environment |-> environment, task_id |-> task_id] :
             risk_level \in RiskLevels, environment \in Environments,
             task_id \in TaskId}
    \cup {[op |-> "calculate_time_risk", hour |-> hour, minute |-> minute] :
             hour \in Hours, minute \in Minutes}
    \cup {[op |-> "assess_risk", environment |-> environment,
           task_id |-> task_id, hour |-> hour, user_id |-> user_id] :
             environment \in Environments, task_id \in TaskId, hour \in Hours,
             user_id \in Users}
    \cup {[op |-> "validate_request", user_id |-> user_id,
           environment |-> environment, task_id |-> task_id,
           justified |-> justified, hour |-> hour, weekday |-> weekday] :
             user_id \in Users, environment \in PolicyEnvironments,
             task_id \in TaskId \cup {"None"}, justified \in BOOLEAN,
             hour \in PolicyHours, weekday \in PolicyWeekdays}
    \cup {[op |-> "validate_plan", rollback |-> rollback,
           risk_level |-> risk_level, environment |-> environment] :
             rollback \in Rollbacks, risk_level \in PlanRiskLevels,
             environment \in PolicyEnvironments}

InitRisk ==
    /\ approval_policies = InitialPolicies
    /\ approval_requests = [r \in RequestIds |-> NoRecord]
    /\ key_order = <<>>
    /\ now = 0
    /\ created_approvers = [r \in RequestIds |-> {}]
    /\ \E call \in RiskCalls :
          targ = [t \in Workers |-> IF t = 1 THEN call ELSE NoCall]
    /\ pc = [t \in Workers |-> IF t = 1 THEN "call" ELSE "idle"]
    /\ tret = [t \in Workers |-> FALSE]
    /\ tstart = [t \in Workers |-> FALSE]

ScoreToRiskLevel ==
    /\ pc[1] = "call"
    /\ targ[1].op = "score_to_risk_level"
    /\ Return(1, score_to_risk_level(targ[1].score))
    /\ UNCHANGED <<approval_policies, approval_requests, key_order, now,
                   created_approvers, targ, tstart>>

RequiresApproval ==
    /\ pc[1] = "call"
    /\ targ[1].op = "requires_approval"
    /\ Return(1, requires_approval(targ[1].risk_level, targ[1].environment,
                                   targ[1].task_id))
    /\ UNCHANGED <<approval_policies, approval_requests, key_order, now,
                   created_approvers, targ, tstart>>

\* datetime.now() is (hour, minute); _calculate_time_risk reads now.hour
CalculateTimeRisk ==
    /\ pc[1] = "call"
    /\ targ[1].op = "calculate_time_risk"
    /\ Return(1, calculate_time_risk(targ[1].hour))
    /\ UNCHANGED <<approval_policies, approval_requests, key_order, now,
                   created_approvers, targ, tstart>>

\* an engine is constructed and asked to assess a request
AssessRisk ==
    /\ pc[1] = "call"
    /\ targ[1].op = "assess_risk"
    /\ Return(1, new_engine_assess_risk(targ[1].environment, targ[1].task_id,
                                        targ[1].hour, targ[1].user_id))
    /\ UNCHANGED <<approval_policies, approval_requests, key_order, now,
                   created_approvers, targ, tstart>>

ValidateRequest ==
    /\ pc[1] = "call"
    /\ targ[1].op = "validate_request"
    /\ Return(1, validate_request(targ[1].user_id, targ[1].environment,
                                  targ[1].task_id, targ[1].justified,
                                  targ[1].hour, targ[1].weekday))
    /\ UNCHANGED <<approval_policies, approval_requests, key_order, now,
                   created_approvers, targ, tstart>>

ValidatePlan ==
    /\ pc[1] = "call"
    /\ targ[1].op = "validate_plan"
    /\ Return(1, validate_plan(targ[1].rollback, targ[1].risk_level,
                               targ[1].environment))
    /\ UNCHANGED <<approval_policies, approval_requests, key_order, now,
                   created_approvers, targ, tstart>>

NextRisk == ScoreToRiskLevel \/ RequiresApproval \/ CalculateTimeRisk \/ AssessRisk \/ ValidateRequest \/ ValidatePlan

SpecRisk == InitRisk /\ [][NextRisk]_vars

(***************************************************************************)
(* assess_risk called several times in a row by one caller, which gets its *)
(* engine as the handler does (server_full.py line 33): RiskEngine()        *)
(***************************************************************************)
\* the assess_risk calls caller 1 has made so far, oldest first, each with its
\* outcome
MadeCalls == IF targ[1] = NoCall THEN <<>> ELSE targ[1].made

\* mutant: the engine remembers how often it was asked and refuses the third
\* call
assess_risk_call_Counting(made, environment, task_id, hour, user_id) ==
    IF Len(made) >= 2 THEN Raises("RuntimeError")
    ELSE new_engine_assess_risk(environment, task_id, hour, user_id)

\* RiskEngine().assess_risk(request, classification) after the calls `made`.
\* __init__ builds the tables of the engine from literals; assess_risk and the
\* methods it calls assign no attribute of the engine, no module variable and
\* no file, so a call reads nothing that an earlier call left
assess_risk_call(made, environment, task_id, hour, user_id) ==
    new_engine_assess_risk(environment, task_id, hour, user_id)

\* one more call; hour is what datetime.now() shows during it
AssessRiskCall ==
    /\ pc[1] \in {"idle", "done"}
    /\ Len(MadeCalls) < MaxCalls
    /\ \E environment \in AssessEnvironments, task_id \in TaskId,
          hour \in AssessHours, user_id \in AssessUsers :
          LET outcome == assess_risk_call(MadeCalls, environment, task_id, hour,
                                          user_id)
          IN /\ targ' = [targ EXCEPT ![1] =
                   [op |-> "assess_risk", environment |-> environment,
                    task_id |-> task_id, hour |-> hour, user_id |-> user_id,
                    made |-> Append(MadeCalls,
                               [environment |-> environment, task_id |-> task_id,
                                hour |-> hour, user_id |-> user_id,
                                outcome |-> outcome])]]
             /\ Return(1, outcome)
    /\ UNCHANGED <<approval_policies, approval_requests, key_order, now,
                   created_approvers, tstart>>

NextAssess == AssessRiskCall

SpecAssess == Init /\ [][NextAssess]_vars

(***************************************************************************)
(* OpsGuideFullHandler (src/server_full.py).  HTTPServer serves one        *)
(* connection at a time and constructs one handler object, with its own    *)
(* components, for each; caller 1 is the connection of a POST /v1/request, *)
(* caller 2 that of a GET /v1/status/{request_id}.                         *)
(***************************************************************************)
Response(status_code, status) == [status_code |-> status_code, status |-> status]

\* nothing is written to the connection
NoResponse == Response(0, "none")

\* PatternClassifier.__init__: the task_patterns literal has the key
\* TaskId.CANCEL_CASE
PatternClassifierInit ==
    LET cancel_case == TaskIdAttr("CANCEL_CASE") IN
    IF "raises" \in DOMAIN cancel_case THEN cancel_case ELSE Returns("classifier")

\* PlanGenerator.__init__ constructs a PromptTemplateManager, whose templates
\* literal has the key TaskId.CANCEL_CASE
PlanGeneratorInit ==
    LET cancel_case == TaskIdAttr("CANCEL_CASE") IN
    IF "raises" \in DOMAIN cancel_case THEN cancel_case ELSE Returns("plan_generator")

\* OpsGuideFullHandler.__init__ (lines 26-36): the components are constructed in
\* order, and the first exception leaves the constructor
HandlerInit ==
    LET constructed ==
           <<Returns("parser"), Returns("validator"), PatternClassifierInit,
             Returns("knowledge_engine"), PlanGeneratorInit, RiskEngineInit,
             Returns("policy_validator"), Returns("approval_manager")>>
        failed == {i \in 1..Len(constructed) : "raises" \in DOMAIN constructed[i]}
    IN IF failed # {}
       THEN constructed[CHOOSE i \in failed : \A j \in failed : i <= j]
       ELSE Returns([risk_engine |-> constructed[6].value,
                     approval_policies |-> InitialPolicies,
                     approval_requests |-> [r \in RequestIds |-> NoRecord]])

\* `if not policy_validation.allowed` (line 199)
Denied(policy_validation) == ~policy_validation.allowed

\* lines 215-229 of _process_full_pipeline: create_approval_request is called
\* when requires_approval is true, and the status of the response is
\* awaiting_approval when it returned a record; t1 and t2 are the two clock
\* reads of create_approval_request (lines 97 and 28 of approval_manager.py)
approval_decision(requires, policies, requests, request_id, operation_summary, risk_level, requester, environment, t1, t2) ==
    LET created ==
           create_approval_request(policies, requests, request_id,
              operation_summary, risk_level, requester, environment, t1, t2)
    IN IF requires
       THEN [policies |-> created.policies, requests |-> created.requests,
             ret |-> created.ret, called |-> TRUE,
             status |-> IF created.ret # NoRecord THEN "awaiting_approval"
                        ELSE "ready_for_execution"]
       ELSE [policies |-> policies, requests |-> requests, ret |-> NoRecord,
             called |-> FALSE, status |-> "ready_for_execution"]

\* _process_full_pipeline (lines 153-309) on a handler whose risk engine and
\* approval store are given.  outcome is what classification, knowledge
\* retrieval and plan generation (lines 156-183) come to: no task recognised,
\* an exception, or a plan for task_id; hour and weekday are datetime.now(),
\* t1 and t2 are the two datetime.utcnow() reads of the create_approval_request
\* call of line 218 (assess_risk raises before it in every call, so the values
\* are never used)
process_full_pipeline(engine, policies, requests, call, t1, t2) ==
    LET kept == [policies |-> policies, requests |-> requests, ret |-> NoRecord]
        risk_assessment == assess_risk(engine, call.environment, call.task_id,
                                       call.hour, call.user_id)
        policy_validation ==
           validate_request(call.user_id, call.environment, call.task_id,
                            call.justified, call.hour, call.weekday)
        decision ==
           approval_decision(risk_assessment.value.requires_approval, policies,
              requests, call.request_id, call.operation_summary,
              risk_assessment.value.risk_level, call.user_id, call.environment,
              t1, t2)
    IN CASE call.outcome = "no_task" ->
               kept @@ [response |-> Response(400, "error"), trace |-> <<>>]
         [] call.outcome = "raises" ->
               kept @@ [response |-> Response(500, "error"), trace |-> <<>>]
         [] OTHER ->
               IF "raises" \in DOMAIN risk_assessment
               THEN kept @@ [response |-> Response(500, "error"),
                             trace |-> <<"assess_risk">>]
               ELSE IF Denied(policy_validation)
               THEN kept @@ [response |-> Response(403, "denied"),
                             trace |-> <<"assess_risk", "validate_request">>]
               ELSE [policies |-> decision.policies,
                     requests |-> decision.requests, ret |-> decision.ret,
                     response |-> Response(202, decision.status),
                     trace |-> IF decision.called
                               THEN <<"assess_risk", "validate_request",
                                      "create_approval_request">>
                               ELSE <<"assess_risk", "validate_request">>]

\* what lines 156-183 come to: no task recognised, an exception, or a plan for
\* a task
Classified ==
    {[outcome |-> "no_task", task_id |-> "None"],
     [outcome |-> "raises", task_id |-> "None"]}
    \cup {[outcome |-> "plan", task_id |-> task_id] : task_id \in TaskId}

\* the requests that reach _process_full_pipeline
PipelineCalls(op) ==
    {[op |-> op, request_id |-> request_id, user_id |-> user_id,
      environment |-> environment, justified |-> justified,
      outcome |-> classified.outcome, task_id |-> classified.task_id,
      operation_summary |-> operation_summary, hour |-> hour,
      weekday |-> weekday] :
        request_id \in RequestIds, user_id \in Users,
        environment \in Environments, justified \in BOOLEAN,
        classified \in Classified, operation_summary \in Summaries,
        hour \in PipelineHours, weekday \in PipelineWeekdays}

\* the store of the handler that served the last connection, after `out`
StoreAfter(call, out, keys, approvers) ==
    LET made == out.ret # NoRecord IN
    /\ approval_policies' = out.policies
    /\ approval_requests' = out.requests
    /\ key_order' = IF made THEN KeysAfterStore(keys, call.request_id) ELSE keys
    /\ created_approvers' =
          IF made THEN [approvers EXCEPT ![call.request_id] = out.ret.approvers]
          ELSE approvers

\* POST /v1/request: the server constructs a handler (lines 26-36); an exception
\* in the constructor is logged by the server, which closes the connection with
\* nothing answered; otherwise handle_full_operational_request (lines 114-151)
\* runs the pipeline on the new handler's components
HttpPostRequest ==
    /\ pc[1] \in {"idle", "done"}
    /\ \E call \in PipelineCalls("POST /v1/request") :
          LET handler == HandlerInit IN
          IF "raises" \in DOMAIN handler
          THEN /\ targ' = [targ EXCEPT ![1] =
                     call @@ [response |-> NoResponse, trace |-> <<>>]]
               /\ UNCHANGED <<approval_policies, approval_requests, key_order,
                              created_approvers, now>>
          ELSE \E reads \in TwoReads(now) :
                  LET out == process_full_pipeline(handler.value.risk_engine,
                                handler.value.approval_policies,
                                handler.value.approval_requests, call,
                                reads[1], reads[2])
                  IN /\ targ' = [targ EXCEPT ![1] =
                           call @@ [response |-> out.response, trace |-> out.trace]]
                     /\ StoreAfter(call, out, key_order, created_approvers)
                     /\ now' = IF out.ret # NoRecord THEN reads[2] ELSE now
    /\ Goto(1, "done")
    /\ UNCHANGED <<tret, tstart>>

\* GET /v1/status/{request_id}: a handler is constructed as for every
\* connection, and handle_status_check (lines 311-339) asks that handler's own
\* ApprovalManager
HttpGetStatus ==
    /\ pc[2] \in {"idle", "done"}
    /\ \E request_id \in RequestIds :
          LET handler == HandlerInit
              call == [op |-> "GET /v1/status", request_id |-> request_id]
          IN IF "raises" \in DOMAIN handler
             THEN /\ targ' = [targ EXCEPT ![2] = call @@ [response |-> NoResponse]]
                  /\ UNCHANGED <<approval_policies, approval_requests, key_order,
                                 created_approvers>>
             ELSE LET out == check_approval_status(
                                handler.value.approval_requests, request_id, now)
                  IN /\ targ' = [targ EXCEPT ![2] =
                           call @@ [response |->
                              IF out.ret = NoRecord THEN Response(404, "error")
                              ELSE Response(200, out.ret.status)]]
                     /\ approval_policies' = handler.value.approval_policies
                     /\ approval_requests' = out.requests
                     /\ key_order' = <<>>
                     /\ created_approvers' = [r \in RequestIds |-> {}]
    /\ Goto(2, "done")
    /\ UNCHANGED <<now, tret, tstart>>

NextPipeline == Tick \/ HttpPostRequest \/ HttpGetStatus

SpecPipeline == Init /\ [][NextPipeline]_vars

(***************************************************************************)
(* Properties                                                              *)
(***************************************************************************)
Exists(request_id) == approval_requests[request_id] # NoRecord

PastExpiry(request_id) == now > approval_requests[request_id].expires_at

\* the outcome of approve(request_id, approver) called in the current state
ApproveNow(request_id, approver, comments) ==
    approve_request(approval_requests, request_id, approver, comments, now, now)

\* the same, when the clock has moved on to `later` by the time approved_at is stamped
ApproveAt(request_id, approver, comments, later) ==
    approve_request(approval_requests, request_id, approver, comments, now, later)

\* the outcome of reject(request_id, approver, reason) called in the current state
RejectNow(request_id, approver, reason) ==
    reject_request(approval_requests, request_id, approver, reason)

\* the outcome of checkStatus(request_id) called in the current state
CheckNow(request_id) == check_approval_status(approval_requests, request_id, now)

\* the outcome of create(...) called in the current state
CreateNow(request_id, operation_summary, risk_level, requester, environment) ==
    create_approval_request(approval_policies, approval_requests, request_id,
                            operation_summary, risk_level, requester, environment,
                            now, now)

\* the store with only the status of one record changed to EXPIRED
WithExpired(request_id) == [approval_requests EXCEPT ![request_id].status = EXPIRED]

\* C1: the status stored under a request_id only moves from PENDING to a terminal
\* status, and a terminal status never changes again, whatever call is made
\* (a later create with the same request_id included).
C1_StatusOnlyForward ==
    [][\A request_id \in RequestIds :
          Exists(request_id) =>
             /\ approval_requests'[request_id] # NoRecord
             /\ approval_requests[request_id].status \in Terminal =>
                   approval_requests'[request_id].status =
                      approval_requests[request_id].status
             /\ approval_requests[request_id].status = PENDING =>
                   approval_requests'[request_id].status \in ApprovalStatus]_vars

\* the record is the result of caller w's transition alone
SingleWinner(w) ==
    IF targ[w].op = "approve"
    THEN /\ Rec(w).status = APPROVED
         /\ Rec(w).approved_by = targ[w].approver
         /\ Rec(w).approved_at # NoTime
         /\ Rec(w).rejection_reason = "None"
    ELSE /\ Rec(w).status = REJECTED
         /\ Rec(w).rejection_reason = targ[w].reason
         /\ Rec(w).approved_by = "None"
         /\ Rec(w).approved_at = NoTime

\* C2: when two eligible callers run approve/reject concurrently on the same
\* PENDING, non-expired request, exactly one call returns true and the final record
\* is the result of that call alone.
C2_ExactlyOneWinner ==
    \A t1 \in Threads : \A t2 \in Threads \ {t1} :
       ( /\ pc[t1] = "done" /\ pc[t2] = "done"
         /\ tstart[t1] /\ tstart[t2]
         /\ targ[t1].request_id = targ[t2].request_id
         /\ ~targ[t1].replaced /\ ~targ[t2].replaced
         /\ now <= Rec(t1).expires_at )
       => \E w \in {t1, t2} :
             /\ tret[w]
             /\ \A l \in {t1, t2} \ {w} : ~tret[l]
             /\ SingleWinner(w)

\* the four conditions the claims put on a successful approve or reject
Allowed(request_id, approver) ==
    /\ Exists(request_id)
    /\ approval_requests[request_id].status = PENDING
    /\ approver \in approval_requests[request_id].approvers
    /\ ~PastExpiry(request_id)

\* C3: approve returns true exactly when the record exists, is PENDING, the approver
\* is in its approver set and now is not past expires_at; when it returns true the
\* record is APPROVED with approved_by the approver and approved_at set.
C3_ApproveIff ==
    \A request_id \in RequestIds, approver \in Callers, comments \in Comments,
       later \in now..MaxTime :
       LET out == ApproveAt(request_id, approver, comments, later) IN
       /\ out.ret <=> Allowed(request_id, approver)
       /\ out.ret =>
             /\ out.requests[request_id].status = APPROVED
             /\ out.requests[request_id].approved_by = approver
             /\ out.requests[request_id].approved_at # NoTime

\* C3 witness: approve has succeeded on a record at the very instant of its expiry
C3_Witness ==
    \E request_id \in RequestIds :
       /\ Exists(request_id)
       /\ approval_requests[request_id].status = APPROVED
       /\ approval_requests[request_id].approved_by
             \in approval_requests[request_id].approvers
       /\ approval_requests[request_id].approved_at
             = approval_requests[request_id].expires_at

\* C4: an approve that returns false leaves the store unchanged, except that on a
\* PENDING record past its expiry the status alone may become EXPIRED; an approve by
\* an approver outside the approver set returns false and changes nothing.
C4_ApproveFalseFrame ==
    \A request_id \in RequestIds, approver \in Callers, comments \in Comments,
       later \in now..MaxTime :
       LET out == ApproveAt(request_id, approver, comments, later) IN
       /\ ~out.ret =>
             \/ out.requests = approval_requests
             \/ /\ Exists(request_id)
                /\ approval_requests[request_id].status = PENDING
                /\ PastExpiry(request_id)
                /\ out.requests = WithExpired(request_id)
       /\ (Exists(request_id) /\ approver \notin approval_requests[request_id].approvers)
             => ~out.ret /\ out.requests = approval_requests

\* C4 witness: a PENDING record past its expiry, on which an eligible approver's
\* approve returns false and expires it while an outsider's approve changes nothing
C4_Witness ==
    \E request_id \in RequestIds, insider \in Callers, outsider \in Callers :
       /\ Exists(request_id)
       /\ approval_requests[request_id].status = PENDING
       /\ PastExpiry(request_id)
       /\ insider \in approval_requests[request_id].approvers
       /\ outsider \notin approval_requests[request_id].approvers
       /\ ~ApproveNow(request_id, insider, "ok").ret
       /\ ApproveNow(request_id, insider, "ok").requests = WithExpired(request_id)
       /\ ApproveNow(request_id, outsider, "ok").requests = approval_requests

\* C5: reject returns true only if the record exists, is PENDING, the approver is in
\* its approver set and now is not past expires_at; a reject on a PENDING record past
\* its expiry returns false and never sets REJECTED.
C5_RejectGuardsLikeApprove ==
    \A request_id \in RequestIds, approver \in Callers, reason \in Reasons :
       LET out == RejectNow(request_id, approver, reason) IN
       /\ out.ret => Allowed(request_id, approver)
       /\ ( /\ Exists(request_id)
            /\ approval_requests[request_id].status = PENDING
            /\ PastExpiry(request_id) )
          => ~out.ret /\ out.requests[request_id].status # REJECTED

\* C6: on a record that is APPROVED, REJECTED or EXPIRED, approve and reject by any
\* approver at any time return false and change no field.
C6_TerminalNoOp ==
    \A request_id \in RequestIds :
       (Exists(request_id)
        /\ approval_requests[request_id].status \in {APPROVED, REJECTED, EXPIRED})
       => \A approver \in Callers :
             /\ \A comments \in Comments, t \in 0..MaxTime :
                   LET out == approve_request(approval_requests, request_id,
                                              approver, comments, t, t)
                   IN ~out.ret /\ out.requests = approval_requests
             /\ \A reason \in Reasons :
                   LET out == RejectNow(request_id, approver, reason)
                   IN ~out.ret /\ out.requests = approval_requests

\* C6 witness: a REJECTED and an APPROVED record are stored, each with an eligible
\* approver among the callers, who may approve or reject again
C6_Witness ==
    \E r1 \in RequestIds, r2 \in RequestIds :
       /\ Exists(r1) /\ Exists(r2)
       /\ approval_requests[r1].status = REJECTED
       /\ approval_requests[r2].status = APPROVED
       /\ approval_requests[r1].approvers \cap Callers # {}
       /\ approval_requests[r2].approvers \cap Callers # {}

\* C7: checkStatus changes the store exactly when the record is PENDING and now is
\* past expires_at, and then only that record's status, to EXPIRED; the record it
\* returns is the stored record after the check.
C7_CheckStatusEffect ==
    \A request_id \in RequestIds :
       LET out == CheckNow(request_id)
           expires == /\ Exists(request_id)
                      /\ approval_requests[request_id].status = PENDING
                      /\ PastExpiry(request_id)
       IN /\ (out.requests # approval_requests) <=> expires
          /\ expires => out.requests = WithExpired(request_id)
          /\ out.ret = out.requests[request_id]

\* C7 witness: an APPROVED record past its expiry (left alone) next to a PENDING
\* record past its expiry (which the check turns EXPIRED)
C7_Witness ==
    \E r1 \in RequestIds, r2 \in RequestIds :
       /\ Exists(r1) /\ Exists(r2)
       /\ approval_requests[r1].status = APPROVED /\ PastExpiry(r1)
       /\ approval_requests[r2].status = PENDING /\ PastExpiry(r2)
       /\ CheckNow(r2).ret.status = EXPIRED
       /\ CheckNow(r1).ret.status = APPROVED

\* the approver set the policy table of the specification gives
TableApprovers(risk_level, environment) ==
    Range(InitialPolicies[risk_level].eligible_approvers)
       \cup (IF environment = "prod" /\ risk_level \in {"HIGH", "CRITICAL"}
             THEN {"cto", "vp_engineering"} ELSE {})

\* C8: every create that produces a record gives it exactly the eligible roles of
\* its risk level in the policy table, plus cto and vp_engineering exactly when the
\* environment is prod and the level HIGH or CRITICAL, whatever creates came before.
C8_ApproversFromTable ==
    \A request_id \in RequestIds, operation_summary \in Summaries,
       risk_level \in RiskLevels, requester \in Requesters,
       environment \in Environments :
       LET out == CreateNow(request_id, operation_summary, risk_level, requester,
                            environment)
       IN out.ret # NoRecord =>
             out.ret.approvers = TableApprovers(risk_level, environment)

\* C9: after a create that produced a record, a checkStatus on the same request_id
\* at a time not past expires_at (no other call on that request_id in between, any
\* calls on other request_ids) returns status PENDING and the approvers create returned.
C9_CreateThenCheck ==
    \A request_id \in RequestIds :
       (created_approvers[request_id] # {} /\ ~PastExpiry(request_id))
       => /\ CheckNow(request_id).ret # NoRecord
          /\ CheckNow(request_id).ret.status = PENDING
          /\ CheckNow(request_id).ret.approvers = created_approvers[request_id]

\* C9 witness: a created record, not yet looked at, at the instant of its expiry,
\* while the other request has been created and decided in between
C9_Witness ==
    \E request_id \in RequestIds : \E other \in RequestIds \ {request_id} :
       /\ created_approvers[request_id] # {}
       /\ now = approval_requests[request_id].expires_at
       /\ Exists(other)
       /\ approval_requests[other].created_at > approval_requests[request_id].created_at
       /\ approval_requests[other].status \in Terminal

\* C10: a create for a risk level whose policy requires no approval (LOW) returns no
\* record, stores nothing, prints no notification and leaves every record unchanged.
C10_LowCreatesNothing ==
    \A request_id \in RequestIds, operation_summary \in Summaries,
       requester \in Requesters, environment \in Environments :
       LET out == CreateNow(request_id, operation_summary, "LOW", requester,
                            environment)
       IN /\ out.ret = NoRecord
          /\ out.requests = approval_requests
          /\ out.notified = <<>>
          /\ out.policies = approval_policies

\* C10 witness: a LOW create called while both requests hold records, one of them
\* under the request_id the call names
C10_Witness ==
    /\ \A request_id \in RequestIds : Exists(request_id)
    /\ \E request_id \in RequestIds :
          /\ approval_requests[request_id].status = PENDING
          /\ CreateNow(request_id, "cancel case", "LOW", "alice", "prod").ret = NoRecord

\* the timeout the policy table gives a stored record's risk level
TimeoutOf(risk_level) == PolicyOf(InitialPolicies, risk_level).timeout_hours

\* C11: every stored record has expires_at > created_at, and expires_at is
\* created_at plus the timeout hours of the record's risk-level policy
\* (MEDIUM 24, HIGH 12, CRITICAL 4)
C11_ExpiryFromCreation ==
    \A request_id \in RequestIds :
       Exists(request_id) =>
          LET request == approval_requests[request_id] IN
          /\ request.expires_at > request.created_at
          /\ request.expires_at = request.created_at + TimeoutOf(request.risk_level)

\* no call is in progress
Quiet == \A t \in Workers : pc[t] \in {"idle", "done"}

\* C12: for every stored record, approved_by is set if and only if the status is
\* APPROVED, and so is approved_at: a PENDING, REJECTED or EXPIRED record has
\* neither and an APPROVED record has both (read while no call is in progress)
C12_ApprovedByIffApproved ==
    Quiet =>
       \A request_id \in RequestIds :
          Exists(request_id) =>
             LET request == approval_requests[request_id] IN
             /\ (request.approved_by # "None") <=> (request.status = APPROVED)
             /\ (request.approved_at # NoTime) <=> (request.status = APPROVED)

\* C13: for every stored record, rejection_reason is set if and only if the
\* status is REJECTED, whatever reason value was passed to reject
C13_ReasonIffRejected ==
    \A request_id \in RequestIds :
       Exists(request_id) =>
          LET request == approval_requests[request_id] IN
          (request.rejection_reason # "None") <=> (request.status = REJECTED)

\* the outcome of listPending(approver) called in the current state
ListNow(approver) ==
    get_pending_approvals(approval_requests, key_order, approver,
                          [i \in 1..Len(key_order) |-> now])

\* the request_ids whose record listPending(approver) has to return now
Qualifying(approver) ==
    {request_id \in RequestIds :
        /\ Exists(request_id)
        /\ approval_requests[request_id].status = PENDING
        /\ ~PastExpiry(request_id)
        /\ approver \in approval_requests[request_id].approvers}

\* the clock of a listPending(approver) call made in the current state: its
\* first clock read returns `now`, the call time
ListReads(approver) ==
    LET read == ClockIsRead(approval_requests, key_order, approver) IN
    {times \in ReadTimes(approval_requests, key_order, approver, now) :
        \A i \in read : (\A j \in 1..(i - 1) : j \notin read) => times[i] = now}

\* C14: listPending(approver) returns exactly the stored records that are
\* PENDING, not past expires_at at call time and have approver among their
\* approvers, each once, in ascending order of expires_at
C14_ListPendingExact ==
    \A approver \in Callers : \A times \in ListReads(approver) :
       LET listed == get_pending_approvals(approval_requests, key_order, approver,
                                           times).ret IN
       /\ Range(listed) = {approval_requests[r] : r \in Qualifying(approver)}
       /\ Len(listed) = Cardinality(Qualifying(approver))
       /\ \A i \in 1..Len(listed) : \A j \in i..Len(listed) :
             listed[i].expires_at <= listed[j].expires_at

\* two successive clock reads of a call that starts when the clock shows
\* `from` and ends when it shows `to`
ReadsWithin(from, to) == {reads \in TwoReads(from) : reads[2] <= to}

\* `request` is what a reject, an expiry check or an approve made between the
\* clock values `from` and `to` leaves under request_id
Decided(request_id, request, from, to) ==
    \/ \E approver \in Callers, reason \in Reasons :
          request = RejectNow(request_id, approver, reason).requests[request_id]
    \/ \E reads \in ReadsWithin(from, to) :
          request = check_approval_status(approval_requests, request_id,
                                          reads[1]).requests[request_id]
    \/ \E approver \in Callers, comments \in Comments :
          \E reads \in ReadsWithin(from, to) :
             request = approve_request(approval_requests, request_id, approver,
                                       comments, reads[1],
                                       reads[2]).requests[request_id]

\* C15: a stored record changes only through approve, reject or the expiry check
\* of checkStatus: listPending leaves every record as it is, a PENDING record
\* past its expiry included, whatever the clock shows while it runs, and no step
\* (the passage of time included) changes the record stored under an id other
\* than to what one of those three calls, made while the step lasts, leaves there
C15_OnlyDecisionsChange ==
    /\ [](\A approver \in Callers :
          \A times \in ReadTimes(approval_requests, key_order, approver, now) :
             get_pending_approvals(approval_requests, key_order, approver,
                                   times).requests = approval_requests)
    /\ [][\A request_id \in RequestIds :
             (/\ Exists(request_id)
              /\ approval_requests'[request_id] # approval_requests[request_id])
             => Decided(request_id, approval_requests'[request_id], now, now')]_vars

\* the first half of C15 alone: listPending leaves every record as it is
ListPendingChangesNothing ==
    \A approver \in Callers :
       \A times \in ReadTimes(approval_requests, key_order, approver, now) :
          get_pending_approvals(approval_requests, key_order, approver,
                                times).requests = approval_requests

\* the clock values a later call may read
Later == now..MaxTime

\* C16: the first valid approve on a PENDING record makes it APPROVED at once,
\* for every risk level (HIGH and CRITICAL, whose policy has approvers_needed
\* 2, included); any approve by an eligible approver after it returns False
\* and leaves the record, approved_by included, as the first approve left it
C16_FirstApprovalFinal ==
    \A request_id \in RequestIds, approver \in Callers, comments \in Comments :
       (/\ Exists(request_id)
        /\ approval_requests[request_id].status = PENDING
        /\ ~PastExpiry(request_id)
        /\ approver \in approval_requests[request_id].approvers)
       => LET first == ApproveNow(request_id, approver, comments) IN
          /\ first.ret = TRUE
          /\ first.requests[request_id].status = APPROVED
          /\ first.requests[request_id].approved_by = approver
          /\ \A second \in first.requests[request_id].approvers, t \in Later :
                LET again == approve_request(first.requests, request_id, second,
                                             comments, t, t) IN
                /\ again.ret = FALSE
                /\ again.requests = first.requests

\* a record whose policy has approvers_needed 2 is APPROVED by one approver and
\* another of its approvers is refused
C16_Witness ==
    \E request_id \in RequestIds, second \in Callers :
       /\ Exists(request_id)
       /\ LET request == approval_requests[request_id] IN
          /\ request.status = APPROVED
          /\ PolicyOf(approval_policies, request.risk_level).approvers_needed = 2
          /\ second \in request.approvers \ {request.approved_by}
          /\ ApproveNow(request_id, second, "ok").ret = FALSE
          /\ ApproveNow(request_id, second, "ok").requests = approval_requests

\* C17: checkStatus, approve and reject called with a request_id that has no
\* record return None / False / False (they do not raise), store no record
\* under that request_id, leave the store as it was and notify nobody
C17_UnknownIdFails ==
    \A request_id \in RequestIds :
       ~Exists(request_id) =>
          /\ CheckNow(request_id) = Outcome(approval_requests, NoRecord, <<>>)
          /\ \A approver \in Callers, comments \in Comments, t \in Later :
                ApproveAt(request_id, approver, comments, t)
                   = Outcome(approval_requests, FALSE, <<>>)
          /\ \A approver \in Callers, reason \in Reasons :
                RejectNow(request_id, approver, reason)
                   = Outcome(approval_requests, FALSE, <<>>)

\* the store holds a record, and the three calls fail on the request_id it does
\* not hold, for a caller who is an approver of the stored record
C17_Witness ==
    \E known \in RequestIds, unknown \in RequestIds, approver \in Callers :
       /\ Exists(known)
       /\ approver \in approval_requests[known].approvers
       /\ ~Exists(unknown)
       /\ CheckNow(unknown).ret = NoRecord
       /\ ApproveNow(unknown, approver, "ok").ret = FALSE
       /\ RejectNow(unknown, approver, "too risky").ret = FALSE
       /\ RejectNow(unknown, approver, "too risky").requests[unknown] = NoRecord

\* caller 1 has returned from a call of the named method
Returned(op) == pc[1] = "done" /\ targ[1].op = op

\* the order of the risk levels
LevelRank(risk_level) ==
    CASE risk_level = "LOW" -> 1 [] risk_level = "MEDIUM" -> 2
      [] risk_level = "HIGH" -> 3 [] risk_level = "CRITICAL" -> 4

\* the level the thresholds 0.3, 0.6, 0.8 give a score (in hundredths)
LevelBands(score) ==
    {l \in RiskLevels :
        \/ l = "LOW" /\ score <= 30
        \/ l = "MEDIUM" /\ 30 < score /\ score <= 60
        \/ l = "HIGH" /\ 60 < score /\ score <= 80
        \/ l = "CRITICAL" /\ 80 < score}

\* C19: every score in [0,1] maps to exactly one level: LOW up to 0.3, MEDIUM
\* above 0.3 up to 0.6, HIGH above 0.6 up to 0.8, CRITICAL above 0.8; and a higher
\* score never maps to a lower level
C19_ScoreToLevel ==
    /\ Returned("score_to_risk_level") =>
          /\ Cardinality(LevelBands(targ[1].score)) = 1
          /\ tret[1] \in LevelBands(targ[1].score)
    /\ \A lower \in Scores : \A higher \in lower..MaxScore :
          LevelRank(score_to_risk_level(lower))
             <= LevelRank(score_to_risk_level(higher))

\* a score on a threshold has been mapped: 0.6 is MEDIUM
C19_Witness ==
    /\ Returned("score_to_risk_level")
    /\ targ[1].score = 60
    /\ tret[1] = "MEDIUM"

\* what the rule of the specification gives for requiresApproval
ApprovalRule(risk_level, environment, task_id) ==
    \/ environment = "prod" /\ risk_level \in {"MEDIUM", "HIGH", "CRITICAL"}
    \/ risk_level \in {"HIGH", "CRITICAL"}
    \/ task_id \in {"CANCEL_CASE", "CANCEL_ORDER"} /\ environment \in {"staging", "prod"}

\* C20: for every level, environment and task, _requires_approval returns true
\* exactly when (prod and level MEDIUM, HIGH or CRITICAL) or (level HIGH or
\* CRITICAL) or (cancellation task and environment staging or prod), and false
\* otherwise; in dev it returns true only for HIGH or CRITICAL
C20_RequiresApprovalRule ==
    Returned("requires_approval") =>
       /\ "value" \in DOMAIN tret[1]
       /\ tret[1].value = ApprovalRule(targ[1].risk_level, targ[1].environment,
                                       targ[1].task_id)
       /\ (targ[1].environment = "dev" /\ tret[1].value)
             => targ[1].risk_level \in {"HIGH", "CRITICAL"}

\* the timing score the specification's bands give for a time of day, with
\* 09:00-17:00 closed at both ends
TimingBand(hour, minute) ==
    LET t == 60 * hour + minute IN
    IF 9 * 60 <= t /\ t <= 17 * 60 THEN 20
    ELSE IF (6 * 60 <= t /\ t < 9 * 60) \/ (17 * 60 < t /\ t <= 22 * 60) THEN 50
    ELSE 80

\* C25: the Timing Risk factor is 0.2 for times in 09:00-17:00, 0.5 for times in
\* 06:00-09:00 or 17:00-22:00 and 0.8 otherwise; in particular times from 17:01
\* to 17:59 score 0.5 and times from 22:01 to 22:59 score 0.8
C25_TimingRiskBands ==
    Returned("calculate_time_risk") =>
       tret[1] = TimingBand(targ[1].hour, targ[1].minute)

\* C21: for a cancellation task in prod, at every hour of day and for every
\* class of user identifier, assess_risk gives a weighted-mean score that maps
\* to level HIGH or CRITICAL, and requires_approval is true
C21_ProdCancellationHigh ==
    (/\ Returned("assess_risk")
     /\ targ[1].environment = "prod"
     /\ targ[1].task_id = "CANCEL_ORDER")
    => /\ "value" \in DOMAIN tret[1]
       /\ tret[1].value.risk_level \in {"HIGH", "CRITICAL"}
       /\ tret[1].value.requires_approval

\* the request, classification and clock value of two recorded calls are the same
SameInputs(first, second) ==
    /\ first.environment = second.environment
    /\ first.task_id = second.task_id
    /\ first.hour = second.hour
    /\ first.user_id = second.user_id

DecisionAfter(reads) ==
    approval_decision(tret[1].value, approval_policies, approval_requests,
                      "req-1", "cancel case", targ[1].risk_level,
                      <<"O", "p", "s">>, targ[1].environment, reads[1], reads[2])

Emitted(result, policy_name, violation_type) ==
    \E i \in 1..Len(result.violations) :
       result.violations[i] = PolicyViolation(policy_name, violation_type, "ERROR")

\* C22: for every result of validate_request and validate_plan, allowed is false
\* if and only if at least one violation has severity ERROR or CRITICAL; the
\* WARNING violation (missing business justification) and the advisory warnings
\* (outside business hours, weekend) never make allowed false: allowed is the
\* same whatever the justification, the hour and the day of the week
C22_AllowedIffNoBlockingViolation ==
    /\ (Returned("validate_request") \/ Returned("validate_plan")) =>
          (~tret[1].allowed)
             = (\E i \in 1..Len(tret[1].violations) :
                   tret[1].violations[i].severity \in {"ERROR", "CRITICAL"})
    /\ Returned("validate_request") =>
          \A justified \in BOOLEAN, hour \in Hours, weekday \in Weekdays :
             validate_request(targ[1].user_id, targ[1].environment,
                              targ[1].task_id, justified, hour, weekday).allowed
                = tret[1].allowed

\* a prod cancellation without justification, at night on a weekend, by a user
\* with production access: one WARNING violation, two warnings, allowed
C22_Witness ==
    /\ Returned("validate_request")
    /\ targ[1].environment = "prod"
    /\ ~targ[1].justified
    /\ Len(tret[1].violations) = 1
    /\ tret[1].violations[1].severity = "WARNING"
    /\ Len(tret[1].warnings) = 2
    /\ tret[1].allowed

\* the markers of production access
Markers ==
    {<<"o", "p", "s">>, <<"a", "d", "m", "i", "n">>,
     <<"e", "n", "g", "i", "n", "e", "e", "r">>}

\* the capital of each letter of the markers
Capital ==
    [a |-> "A", d |-> "D", e |-> "E", g |-> "G", i |-> "I", m |-> "M",
     n |-> "N", o |-> "O", p |-> "P", r |-> "R", s |-> "S"]

\* user_id holds the marker somewhere, each letter in either case
HoldsMarker(user_id, marker) ==
    \E at \in 0..(Len(user_id) - Len(marker)) :
       \A k \in 1..Len(marker) :
          user_id[at + k] \in {marker[k], Capital[marker[k]]}

\* user_id holds none of the markers ops, admin, engineer, in any case
LacksMarkers(user_id) == \A marker \in Markers : ~HoldsMarker(user_id, marker)

\* C23: validate_request emits the production_access/AUTHORIZATION/ERROR
\* violation, and so returns allowed = false, exactly when the environment is
\* prod and the user identifier contains none of the markers ops, admin,
\* engineer (case-insensitive); in any other environment it returns allowed = true
C23_ProductionAccess ==
    Returned("validate_request") =>
       LET emitted == Emitted(tret[1], "production_access", "AUTHORIZATION") IN
       /\ emitted = (targ[1].environment = "prod" /\ LacksMarkers(targ[1].user_id))
       /\ emitted = ~tret[1].allowed
       /\ targ[1].environment # "prod" => tret[1].allowed

\* a prod request by a user whose identifier has upper-case letters and no
\* marker has been denied
C23_Witness ==
    /\ Returned("validate_request")
    /\ targ[1].environment = "prod"
    /\ targ[1].user_id = <<"G", "U", "E", "S", "T">>
    /\ LacksMarkers(targ[1].user_id)
    /\ Emitted(tret[1], "production_access", "AUTHORIZATION")
    /\ ~tret[1].allowed

\* C24: validate_plan returns a max_risk_level/RISK_EXCEEDED/ERROR violation
\* exactly when the plan's risk level is strictly above the environment's
\* maximum in the order LOW < MEDIUM < HIGH < CRITICAL (prod: MEDIUM, staging
\* and dev: HIGH), and a rollback_required/MISSING_PROCEDURE/ERROR violation
\* exactly when the environment is prod and the plan has no rollback steps; the
\* result is allowed only when neither is present
C24_PlanViolations ==
    (/\ Returned("validate_plan")
     /\ targ[1].environment \in Environments
     /\ targ[1].risk_level \in RiskLevels)
    => LET exceeded == Emitted(tret[1], "max_risk_level", "RISK_EXCEEDED")
           missing == Emitted(tret[1], "rollback_required", "MISSING_PROCEDURE")
           limit == IF targ[1].environment = "prod" THEN "MEDIUM" ELSE "HIGH"
       IN /\ exceeded = (LevelRank(targ[1].risk_level) > LevelRank(limit))
          /\ missing = (targ[1].environment = "prod" /\ targ[1].rollback = <<>>)
          /\ tret[1].allowed = (~exceeded /\ ~missing)

\* a prod plan at the limit, with rollback steps, has been allowed
C24_Witness ==
    /\ Returned("validate_plan")
    /\ targ[1].environment = "prod"
    /\ targ[1].risk_level = "MEDIUM"
    /\ targ[1].rollback # <<>>
    /\ tret[1].violations = <<>>
    /\ tret[1].allowed

\* C29: every APPROVED record satisfies approved_at <= expires_at: no advance of
\* the clock between the expiry test of approve_request (line 159) and the read
\* that stamps approved_at (line 166) gives an APPROVED record stamped after its
\* expiry
C29_ApprovedBeforeExpiry ==
    \A request_id \in RequestIds :
       LET request == approval_requests[request_id] IN
       (/\ request # NoRecord
        /\ request.status = APPROVED
        /\ request.approved_at # NoTime)
       => request.approved_at <= request.expires_at

\* the record stored under request_id is in a terminal status
Settled(request_id) ==
    /\ approval_requests[request_id] # NoRecord
    /\ approval_requests[request_id].status \in Terminal

\* C30: with time advancing and check_approval_status called on each request id
\* after its expiry, every created record eventually reaches a terminal status
\* (no record remains PENDING forever) and stays there
C30_EveryRecordSettles ==
    \A request_id \in RequestIds :
       /\ [](approval_requests[request_id] # NoRecord => <>Settled(request_id))
       /\ [](Settled(request_id) => []Settled(request_id))

\* the first half of C30 alone: no stored record remains PENDING forever
NoRecordPendingForever ==
    \A request_id \in RequestIds :
       approval_requests[request_id] # NoRecord ~> Settled(request_id)
====
